---- MODULE Spec2Model ----
(***************************************************************************)
(* History accumulation and correlation-graph pipeline of src/main.py:     *)
(* load_history, update_history, calculate_correlation and main.           *)
(*                                                                         *)
(* Prices are integers in units of 0.1 (1 is 0.1, 2 is 0.2); a correlation *)
(* is kept exactly, as the pair (sxy, d) of n-scaled centred sums with     *)
(* r = sxy / sqrt(d), d = sxx * syy, not rounded to a float; thresholds    *)
(* and link values are in units of 0.01.  A Python dict is a sequence of   *)
(* [k, v] entries in insertion order.                                      *)
(***************************************************************************)
EXTENDS Integers, Sequences, FiniteSets, TLC

VARIABLES
    pc,              \* position of main(): "idle" = no process running
    file_history,    \* content of data_history.json on disk
    file_graph,      \* content of graph_data.json on disk
    MIN_CORRELATION, \* the threshold read from the environment, in 0.01
    history,         \* main's local `history` / `updated` (same object)
    snapshot,        \* main's local `snapshot`
    nodes,           \* main's local `nodes`
    links,           \* main's local `links`
    outcome,         \* how the last run ended
    clock,           \* datetime.now(): one tick per run
    at_start         \* the two files as they were when the run started

vars == <<pc, file_history, file_graph, MIN_CORRELATION, history, snapshot,
          nodes, links, outcome, clock, at_start>>

----------------------------------------------------------------------------
(* Bounds and program constants *)

MaxRuns == 1
MaxUpdates == 2

WINDOW_MAX == 336
MIN_SAMPLES == 5
DEFAULT_MIN_CORRELATION == 50

Listed == {"A", "B"}
Prices == {1, 2}
Thresholds == {0, 25, 26, DEFAULT_MIN_CORRELATION}

----------------------------------------------------------------------------
(* Python dict: ordered, unique keys *)

Keys(d) == {d[i].k : i \in DOMAIN d}

Has(d, key) == key \in Keys(d)

Get(d, key) == d[CHOOSE i \in DOMAIN d : d[i].k = key].v

Put(d, key, val) ==
    IF Has(d, key)
    THEN [i \in DOMAIN d |-> IF d[i].k = key THEN [k |-> key, v |-> val] ELSE d[i]]
    ELSE Append(d, [k |-> key, v |-> val])

EmptyDict == <<>>

\* a value json.load can return: a mapping, or any other JSON value
Dict(items) == [type |-> "dict", items |-> items]
NotADict == [type |-> "other", items |-> <<>>]

----------------------------------------------------------------------------
(* Files *)

Missing == [kind |-> "missing"]
\* an empty or cut-off text: what open(..., "w") leaves, or any non-JSON text
Unparseable == [kind |-> "unparseable"]
\* json.dump(value, f): the JSON text of value
json_dump(value) == [kind |-> "json", value |-> value]

\* load_history()
load_history(file) ==
    IF file.kind = "missing" THEN Dict(EmptyDict)
    ELSE IF file.kind = "unparseable" THEN Dict(EmptyDict)
    ELSE file.value

----------------------------------------------------------------------------
(* update_history *)

\* the slice taken from the wrong end: prices[:336]
keep_first(prices) ==
    IF Len(prices) > WINDOW_MAX THEN SubSeq(prices, 1, WINDOW_MAX) ELSE prices

\* prices[-336:]
keep_last(prices) ==
    IF Len(prices) > WINDOW_MAX
    THEN SubSeq(prices, Len(prices) - WINDOW_MAX + 1, Len(prices))
    ELSE prices

Returned(value) == [raised |-> FALSE, value |-> value]
Raised(value) == [raised |-> TRUE, value |-> value]

\* one iteration of the loop body, for one (m_id, data) of snapshot.items()
update_one(items, m_id, data) ==
    LET created == IF Has(items, m_id) THEN items
                   ELSE Put(items, m_id, [title |-> data.title, prices |-> <<>>])
        rec == Get(created, m_id)
    IN  IF "prices" \notin DOMAIN rec
        THEN Raised(created)
        ELSE Returned(Put(created, m_id,
                 [rec EXCEPT !.prices =
                     keep_last(Append(rec.prices, [t |-> data.timestamp, p |-> data.price]))]))

RECURSIVE update_loop(_, _)
update_loop(items, todo) ==
    IF todo = <<>> THEN Returned(items)
    ELSE LET r == update_one(items, Head(todo).k, Head(todo).v)
         IN  IF r.raised THEN r ELSE update_loop(r.value, Tail(todo))

\* a loop over every record of history instead of the snapshot's: each
\* absent instrument carries its last price forward
carried(items, snap, now) ==
    LET stale == SelectSeq(items, LAMBDA e : ~Has(snap, e.k) /\ "prices" \in DOMAIN e.v
                                             /\ e.v.prices # <<>>)
    IN  snap \o [i \in DOMAIN stale |->
                   [k |-> stale[i].k,
                    v |-> [title |-> "", price |-> stale[i].v.prices[Len(stale[i].v.prices)].p,
                           timestamp |-> now, volume |-> 1]]]

update_history_all(h, snap) ==
    IF h.type # "dict" THEN Raised(h)
    ELSE LET r == update_loop(h.items,
                      carried(h.items, snap, IF snap = <<>> THEN 0 ELSE snap[1].v.timestamp))
         IN  [raised |-> r.raised, value |-> Dict(r.value)]

update_history(h, snap) ==
    IF h.type # "dict" /\ snap # <<>> THEN Raised(h)
    ELSE LET r == update_loop(h.items, snap)
         IN  [raised |-> r.raised, value |-> [h EXCEPT !.items = r.value]]

----------------------------------------------------------------------------
(* calculate_correlation *)

\* content.get("prices", [])
prices_or_empty(content) ==
    IF "prices" \in DOMAIN content THEN content.prices ELSE <<>>

\* the filter off by one: `<= 5` skips
qualifies_above(content) == Len(prices_or_empty(content)) > MIN_SAMPLES

\* the filter of the first loop: `if len(...) < 5: continue`
qualifies(content) == ~(Len(prices_or_empty(content)) < MIN_SAMPLES)

\* data_dict: one pd.Series of the p values per qualifying instrument
data_dict(items) ==
    LET kept == SelectSeq(items, LAMBDA e : qualifies(e.v))
    IN  [i \in DOMAIN kept |->
            [k |-> kept[i].k,
             v |-> [j \in DOMAIN kept[i].v.prices |-> kept[i].v.prices[j].p]]]

Max(S) == CHOOSE x \in S : \A y \in S : y <= x
Min(S) == CHOOSE x \in S : \A y \in S : x <= y

\* the row index of pd.DataFrame(data_dict): the union of the series' indexes
row_index(dd) == UNION {DOMAIN dd[i].v : i \in DOMAIN dd}

\* a column is a function on the rows where it has a value; a row outside
\* its domain is a missing value (NaN)
ffill(col, index) ==
    [i \in {r \in index : \E j \in DOMAIN col : j <= r} |->
        col[Max({j \in DOMAIN col : j <= i})]]

bfill(col, index) ==
    [i \in {r \in index : \E j \in DOMAIN col : j >= r} |->
        col[Min({j \in DOMAIN col : j >= i})]]

\* df.fillna(method="ffill").fillna(method="bfill").dropna(axis=1, how="all")
data_frame(dd) ==
    LET index == row_index(dd)
        filled == [i \in DOMAIN dd |->
                     [k |-> dd[i].k, v |-> bfill(ffill(dd[i].v, index), index)]]
    IN  SelectSeq(filled, LAMBDA c : DOMAIN c.v # {})

RECURSIVE SumOver(_, _)
SumOver(f, S) ==
    IF S = {} THEN 0
    ELSE LET i == CHOOSE x \in S : TRUE IN f[i] + SumOver(f, S \ {i})

\* the undefined cell coerced to the number 0, as corr.fillna(0) would
pearson_zero(x, y) ==
    LET D == DOMAIN x \cap DOMAIN y
        n == Cardinality(D)
        sx == SumOver(x, D)
        sy == SumOver(y, D)
        sxy == n * SumOver([i \in D |-> x[i] * y[i]], D) - sx * sy
        sxx == n * SumOver([i \in D |-> x[i] * x[i]], D) - sx * sx
        syy == n * SumOver([i \in D |-> y[i] * y[i]], D) - sy * sy
    IN  IF n >= 1 /\ sxx * syy # 0
        THEN [defined |-> TRUE, sxy |-> sxy, d |-> sxx * syy]
        ELSE [defined |-> TRUE, sxy |-> 0, d |-> 1]

\* one cell of df.corr(): Pearson over the rows where both columns have a
\* value; undefined (NaN) when a column has no variance there
pearson(x, y) ==
    LET D == DOMAIN x \cap DOMAIN y
        n == Cardinality(D)
        sx == SumOver(x, D)
        sy == SumOver(y, D)
        sxy == n * SumOver([i \in D |-> x[i] * y[i]], D) - sx * sy
        sxx == n * SumOver([i \in D |-> x[i] * x[i]], D) - sx * sx
        syy == n * SumOver([i \in D |-> y[i] * y[i]], D) - sy * sy
    IN  [defined |-> n >= 1 /\ sxx * syy # 0, sxy |-> sxy, d |-> sxx * syy]

\* a * sqrt(d) <= s, for d >= 0
SqrtLeq(a, d, s) ==
    IF a <= 0 THEN s >= 0 \/ a * a * d >= s * s
    ELSE s >= 0 /\ a * a * d <= s * s

\* a * sqrt(d) = s, for d >= 0
SqrtEq(a, d, s) == a * a * d = s * s /\ (s = 0 \/ (a > 0 <=> s > 0))

Abs(x) == IF x < 0 THEN -x ELSE x

\* the comparison made strict: abs(val) > MIN_CORRELATION
above_threshold(c, threshold) ==
    /\ SqrtLeq(threshold, c.d, 100 * Abs(c.sxy))
    /\ ~SqrtEq(threshold, c.d, 100 * Abs(c.sxy))

\* abs(val) >= MIN_CORRELATION, val = c.sxy / sqrt(c.d), threshold in 0.01
at_least_threshold(c, threshold) == SqrtLeq(threshold, c.d, 100 * Abs(c.sxy))

\* round(val, 2) in units of 0.01, a tie going to the even hundredth
round2(c) ==
    LET near == {h \in -100..100 :
                    /\ SqrtLeq(2 * h - 1, c.d, 200 * c.sxy)
                    /\ \/ ~SqrtLeq(2 * h + 1, c.d, 200 * c.sxy)
                       \/ SqrtEq(2 * h + 1, c.d, 200 * c.sxy)}
    IN  IF Cardinality(near) = 1 THEN CHOOSE h \in near : TRUE
        ELSE CHOOSE h \in near : h % 2 = 0

\* the inner loop started at i: range(i, len(cols))
inner_range_from_i(i, n) == i..n

\* range(i + 1, len(cols)), 1-based
inner_range(i, n) == (i + 1)..n

\* the (i, j) the two nested loops visit, in the order they visit them
pair_seq(n) ==
    LET all == [q \in 1..(n * n) |-> <<((q - 1) \div n) + 1, ((q - 1) % n) + 1>>]
    IN  SelectSeq(all, LAMBDA ij : ij[2] \in inner_range(ij[1], n))

\* calculate_correlation(history), reading the global MIN_CORRELATION
calculate_correlation(h) ==
    LET dd == data_dict(h.items)
        df == data_frame(dd)
        cols == [i \in DOMAIN df |-> df[i].k]
        corr(i, j) == pearson(df[i].v, df[j].v)
        linked == SelectSeq(pair_seq(Len(cols)),
                     LAMBDA ij : /\ corr(ij[1], ij[2]).defined
                                 /\ at_least_threshold(corr(ij[1], ij[2]), MIN_CORRELATION))
    IN  IF dd = <<>> \/ df = <<>>
        THEN [raised |-> FALSE, nodes |-> <<>>, links |-> <<>>]
        ELSE IF \E i \in DOMAIN cols : "title" \notin DOMAIN Get(h.items, cols[i])
        THEN [raised |-> TRUE, nodes |-> <<>>, links |-> <<>>]
        ELSE [raised |-> FALSE,
              nodes |-> [i \in DOMAIN cols |->
                           [id |-> cols[i], label |-> Get(h.items, cols[i]).title, val |-> 1]],
              links |-> [q \in DOMAIN linked |->
                           [source |-> cols[linked[q][1]], target |-> cols[linked[q][2]],
                            value |-> round2(corr(linked[q][1], linked[q][2]))]]]

----------------------------------------------------------------------------
(* Inputs: what the collector returns, and what the files hold at the start *)

Instruments == Listed \cup {"C"}

Title(id) == "Will " \o id \o " happen?"

\* fetch_current_prices(): a validated snapshot, an ordered dict of the
\* listed instruments that passed the checks, all stamped `now`
Snapshots(now) ==
    LET shapes == UNION {[1..n -> Listed \X Prices] : n \in 0..Cardinality(Listed)}
        distinct == {f \in shapes : \A i, j \in DOMAIN f : i # j => f[i][1] # f[j][1]}
    IN  {[i \in DOMAIN f |->
            [k |-> f[i][1],
             v |-> [title |-> Title(f[i][1]), price |-> f[i][2],
                    timestamp |-> now, volume |-> 1]]] : f \in distinct}

\* a series accumulated by earlier runs, one point per run, oldest first
Series(ps) == [i \in DOMAIN ps |-> [t |-> i - Len(ps) - 1, p |-> ps[i]]]

Record(id, ps) == [title |-> Title(id), prices |-> Series(ps)]

Entry(id, ps) == [k |-> id, v |-> Record(id, ps)]

\* a series of n points, alternating prices
Long(n) == [i \in 1..n |-> 1 + (i % 2)]

InitHistoryFiles ==
    { Missing,
      Unparseable,
      json_dump(NotADict),
      json_dump(Dict(<<Entry("A", <<1, 2, 1, 1>>), Entry("B", <<1, 1, 1, 1>>),
                       Entry("C", <<2, 1, 2, 2, 1>>)>>)),
      json_dump(Dict(<<Entry("B", <<1, 1, 1, 1>>), Entry("A", <<1, 1, 1>>),
                       Entry("C", <<2, 2, 2, 2, 2>>)>>)),
      json_dump(Dict(<<Entry("C", <<1, 2, 1, 2, 2, 1>>), Entry("A", <<1, 2, 1, 2>>),
                       Entry("B", <<2, 1, 1, 2>>)>>)),
      json_dump(Dict(<<[k |-> "A", v |-> [title |-> Title("A")]],
                       [k |-> "B", v |-> [prices |-> Series(<<2, 1, 1, 2>>)]]>>)) }

InitGraphFiles == {Missing, Unparseable}

\* histories around the window cap: every instrument absent, short, one point
\* below the cap, or at the cap
WindowSeries == {<<>>, <<1, 2>>, Long(WINDOW_MAX - 1), Long(WINDOW_MAX)}

WindowHistories ==
    {Dict(SelectSeq(<<Entry("A", f["A"]), Entry("B", f["B"]), Entry("C", f["C"])>>,
                    LAMBDA e : e.v.prices # <<>>)) : f \in [Instruments -> WindowSeries]}

----------------------------------------------------------------------------
(* main(): one process per run *)

Init ==
    /\ pc = "idle"
    /\ file_history \in InitHistoryFiles
    /\ file_graph \in InitGraphFiles
    /\ MIN_CORRELATION \in Thresholds
    /\ history = Dict(EmptyDict)
    /\ snapshot = <<>>
    /\ nodes = <<>>
    /\ links = <<>>
    /\ outcome = "none"
    /\ clock = 0
    /\ at_start = [history |-> file_history, graph |-> file_graph]

\* history = load_history()
Load ==
    /\ pc = "idle"
    /\ clock < MaxRuns
    /\ pc' = "loaded"
    /\ history' = load_history(file_history)
    /\ snapshot' = <<>>
    /\ nodes' = <<>>
    /\ links' = <<>>
    /\ outcome' = "running"
    /\ at_start' = [history |-> file_history, graph |-> file_graph]
    /\ UNCHANGED <<file_history, file_graph, MIN_CORRELATION, clock>>

\* snapshot = fetch_current_prices(...)
Fetch ==
    /\ pc = "loaded"
    /\ \E snap \in Snapshots(clock + 1) : snapshot' = snap
    /\ clock' = clock + 1
    /\ pc' = "fetched"
    /\ UNCHANGED <<file_history, file_graph, MIN_CORRELATION, history, nodes, links,
                   outcome, at_start>>

\* the check left out
never_empty(snap) == FALSE

\* `if not snapshot`
not_snapshot(snap) == snap = <<>>

\* print("No data fetched."); return
NoData ==
    /\ pc = "fetched"
    /\ not_snapshot(snapshot)
    /\ pc' = "idle"
    /\ outcome' = "no_data"
    /\ UNCHANGED <<file_history, file_graph, MIN_CORRELATION, history, snapshot, nodes,
                   links, clock, at_start>>

\* updated = update_history(history, snapshot); an exception ends the process
Update ==
    /\ pc = "fetched"
    /\ ~not_snapshot(snapshot)
    /\ LET r == update_history(history, snapshot)
       IN  /\ history' = r.value
           /\ pc' = IF r.raised THEN "idle" ELSE "updated"
           /\ outcome' = IF r.raised THEN "update_history raised" ELSE outcome
    /\ UNCHANGED <<file_history, file_graph, MIN_CORRELATION, snapshot, nodes, links,
                   clock, at_start>>

\* open(HISTORY_FILE, "w") truncates the file
OpenHistory ==
    /\ pc = "updated"
    /\ file_history' = Unparseable
    /\ pc' = "history_open"
    /\ UNCHANGED <<file_graph, MIN_CORRELATION, history, snapshot, nodes, links, outcome,
                   clock, at_start>>

\* open raises: caught, "ERROR saving history" printed
OpenHistoryFails ==
    /\ pc = "updated"
    /\ pc' = "history_saved"
    /\ UNCHANGED <<file_history, file_graph, MIN_CORRELATION, history, snapshot, nodes,
                   links, outcome, clock, at_start>>

\* json.dump(updated, f) and the close of the file
DumpHistory ==
    /\ pc = "history_open"
    /\ file_history' = json_dump(history)
    /\ pc' = "history_saved"
    /\ UNCHANGED <<file_graph, MIN_CORRELATION, history, snapshot, nodes, links, outcome,
                   clock, at_start>>

\* nodes, links = calculate_correlation(updated)
Correlate ==
    /\ pc = "history_saved"
    /\ LET r == calculate_correlation(history)
       IN  /\ nodes' = r.nodes
           /\ links' = r.links
           /\ pc' = IF r.raised THEN "idle" ELSE "correlated"
           /\ outcome' = IF r.raised THEN "calculate_correlation raised" ELSE outcome
    /\ UNCHANGED <<file_history, file_graph, MIN_CORRELATION, history, snapshot, clock,
                   at_start>>

\* open(OUTPUT_FILE, "w") truncates the file
OpenGraph ==
    /\ pc = "correlated"
    /\ file_graph' = Unparseable
    /\ pc' = "graph_open"
    /\ UNCHANGED <<file_history, MIN_CORRELATION, history, snapshot, nodes, links, outcome,
                   clock, at_start>>

\* open raises: caught, "ERROR saving graph" printed, then the final print
OpenGraphFails ==
    /\ pc = "correlated"
    /\ pc' = "idle"
    /\ outcome' = "complete"
    /\ UNCHANGED <<file_history, file_graph, MIN_CORRELATION, history, snapshot, nodes,
                   links, clock, at_start>>

\* json.dump(graph_data, f), then the final print
DumpGraph ==
    /\ pc = "graph_open"
    /\ file_graph' = json_dump([nodes |-> nodes, links |-> links, last_updated |-> clock])
    /\ pc' = "idle"
    /\ outcome' = "complete"
    /\ UNCHANGED <<file_history, MIN_CORRELATION, history, snapshot, nodes, links, clock,
                   at_start>>

\* the process is killed between two steps (no handler, no lock, no cleanup);
\* its memory is gone, the files stay as they are
Interrupt ==
    /\ pc # "idle"
    /\ pc' = "idle"
    /\ outcome' = "interrupted"
    /\ history' = Dict(EmptyDict)
    /\ nodes' = <<>>
    /\ links' = <<>>
    /\ UNCHANGED <<file_history, file_graph, MIN_CORRELATION, snapshot, clock, at_start>>

Next ==
    \/ Load
    \/ Fetch
    \/ NoData
    \/ Update
    \/ OpenHistory
    \/ OpenHistoryFails
    \/ DumpHistory
    \/ Correlate
    \/ OpenGraph
    \/ OpenGraphFails
    \/ DumpGraph
    \/ Interrupt

Spec == Init /\ [][Next]_vars

----------------------------------------------------------------------------
(* update_history on its own, on histories at and around the window cap *)

InitWindow ==
    /\ pc = "idle"
    /\ file_history = Missing
    /\ file_graph = Missing
    /\ MIN_CORRELATION = DEFAULT_MIN_CORRELATION
    /\ history \in WindowHistories
    /\ snapshot = <<>>
    /\ nodes = <<>>
    /\ links = <<>>
    /\ outcome = "none"
    /\ clock = 0
    /\ at_start = [history |-> file_history, graph |-> file_graph]

ApplyUpdate ==
    /\ clock < MaxUpdates
    /\ \E snap \in Snapshots(clock + 1) :
          /\ snapshot' = snap
          /\ history' = update_history(history, snap).value
    /\ clock' = clock + 1
    /\ UNCHANGED <<pc, file_history, file_graph, MIN_CORRELATION, nodes, links, outcome,
                   at_start>>

NextWindow == ApplyUpdate

SpecWindow == InitWindow /\ [][NextWindow]_vars

----------------------------------------------------------------------------
(* Vocabulary of the properties *)

\* main holds a graph that calculate_correlation returned for `history`
GraphProduced ==
    \/ pc \in {"correlated", "graph_open"}
    \/ pc = "idle" /\ outcome = "complete"

NodeIds == {nodes[i].id : i \in DOMAIN nodes}

Endpoints == {links[q].source : q \in DOMAIN links} \cup {links[q].target : q \in DOMAIN links}

Stored == IF history.type = "dict" THEN Keys(history.items) ELSE {}

PricesOf(id) ==
    LET rec == Get(history.items, id)
    IN  IF "prices" \in DOMAIN rec THEN [i \in DOMAIN rec.prices |-> rec.prices[i].p] ELSE <<>>

ZeroVariance(id) == \A i, j \in DOMAIN PricesOf(id) : PricesOf(id)[i] = PricesOf(id)[j]

Enough(id) == Len(PricesOf(id)) >= MIN_SAMPLES

\* the column of a node: its prices, the last one repeated down to the
\* longest column's length
Column(id) ==
    LET ps == PricesOf(id)
        rows == Max({Len(PricesOf(n)) : n \in NodeIds})
    IN  ps \o [r \in 1..(rows - Len(ps)) |-> ps[Len(ps)]]

RECURSIVE SumTo(_, _)
SumTo(f, n) == IF n = 0 THEN 0 ELSE f[n] + SumTo(f, n - 1)

\* sum over all row pairs of (x_i - x_j)(y_i - y_j): 2n^2 times the covariance
Co(x, y) ==
    LET n == Len(x)
    IN  SumTo([i \in 1..n |->
                 SumTo([j \in 1..n |-> (x[i] - x[j]) * (y[i] - y[j])], n)], n)

\* the three sums of a pair of nodes
Sums(a, b) ==
    LET x == Column(a)
        y == Column(b)
    IN  [xy |-> Co(x, y), xx |-> Co(x, x), yy |-> Co(y, y)]

CorrDefined(a, b) == LET c == Sums(a, b) IN c.xx * c.yy # 0

\* |r(a, b)| >= threshold / 100, resp. = threshold / 100, on squares
CorrAtLeast(a, b, threshold) ==
    LET c == Sums(a, b)
    IN  10000 * c.xy * c.xy >= threshold * threshold * c.xx * c.yy

CorrEquals(a, b, threshold) ==
    LET c == Sums(a, b)
    IN  10000 * c.xy * c.xy = threshold * threshold * c.xx * c.yy

Linked(a, b) == \E q \in DOMAIN links : links[q].source = a /\ links[q].target = b

IsPrefix(s, t) == Len(s) <= Len(t) /\ SubSeq(t, 1, Len(s)) = s

----------------------------------------------------------------------------
(* Properties of update_history (SpecWindow) *)

\* C1: after update_history every record has at most WINDOW_MAX points, and
\* for an instrument of the snapshot the list is the last
\* min(WINDOW_MAX, n + 1) entries of the old list followed by the new point.
C1_WindowKeepsMostRecent ==
    [][/\ \A i \in DOMAIN history'.items :
             "prices" \in DOMAIN history'.items[i].v
                => Len(history'.items[i].v.prices) <= WINDOW_MAX
       /\ \A q \in DOMAIN snapshot' :
             LET id == snapshot'[q].k
                 old == IF Has(history.items, id) THEN Get(history.items, id).prices ELSE <<>>
                 full == Append(old, [t |-> snapshot'[q].v.timestamp, p |-> snapshot'[q].v.price])
                 new == Get(history'.items, id).prices
                 kept == IF Len(full) < WINDOW_MAX THEN Len(full) ELSE WINDOW_MAX
             IN  /\ Has(history'.items, id)
                 /\ Len(new) = kept
                 /\ new = SubSeq(full, Len(full) - kept + 1, Len(full))]_vars

\* a record at the cap that received the points of two updates: its series
\* was within one point of the cap before, so its oldest point was evicted
C1_Witness ==
    \E i \in DOMAIN history.items :
        LET ps == history.items[i].v.prices
        IN  /\ clock = 2
            /\ Len(ps) = WINDOW_MAX
            /\ ps[Len(ps)].t = 2
            /\ ps[Len(ps) - 1].t = 1

\* C2: an instrument of history that is absent from the snapshot keeps its
\* record: still present, same title, same prices.
C2_AbsentUntouched ==
    [][\A i \in DOMAIN history.items :
          ~Has(snapshot', history.items[i].k)
             => /\ Has(history'.items, history.items[i].k)
                /\ Get(history'.items, history.items[i].k) = history.items[i].v]_vars

\* after an update with a non-empty snapshot, a record at the cap that the
\* snapshot did not name
C2_Witness ==
    /\ clock >= 1
    /\ snapshot # <<>>
    /\ \E i \in DOMAIN history.items :
          /\ ~Has(snapshot, history.items[i].k)
          /\ Len(history.items[i].v.prices) = WINDOW_MAX

----------------------------------------------------------------------------
(* Properties of the graph (Spec) *)

\* C3: an instrument with fewer than MIN_SAMPLES points is neither a node nor
\* an endpoint of a link, and one with MIN_SAMPLES points or more is a node.
C3_NodesAreTheSampledInstruments ==
    GraphProduced =>
        \A id \in Stored :
            /\ ~Enough(id) => id \notin NodeIds \cup Endpoints
            /\ Enough(id) => id \in NodeIds

\* an instrument that reached MIN_SAMPLES points in this run is a node, next
\* to one that is still short of them
C3_Witness ==
    /\ GraphProduced
    /\ \E a, b \in Stored :
          /\ Len(PricesOf(a)) = MIN_SAMPLES
          /\ Get(history.items, a).prices[MIN_SAMPLES].t = clock
          /\ a \in NodeIds
          /\ ~Enough(b)
          /\ b \notin NodeIds

\* C4: for nodes a before b in column order there is a link (a, b) exactly
\* when their correlation is defined and its absolute value is at least the
\* threshold.
C4_LinkIffAtLeastThreshold ==
    GraphProduced =>
        \A i, j \in DOMAIN nodes :
            i < j => (Linked(nodes[i].id, nodes[j].id)
                        <=> /\ CorrDefined(nodes[i].id, nodes[j].id)
                            /\ CorrAtLeast(nodes[i].id, nodes[j].id, MIN_CORRELATION))

\* a linked pair whose correlation is exactly the (non-zero) threshold
C4_Witness ==
    /\ GraphProduced
    /\ MIN_CORRELATION > 0
    /\ \E i, j \in DOMAIN nodes :
          /\ i < j
          /\ CorrDefined(nodes[i].id, nodes[j].id)
          /\ CorrEquals(nodes[i].id, nodes[j].id, MIN_CORRELATION)
          /\ Linked(nodes[i].id, nodes[j].id)

\* C5: every link joins two different nodes of the graph, and no unordered
\* pair of nodes has more than one link.
C5_GraphWellFormed ==
    /\ \A q \in DOMAIN links :
          /\ links[q].source \in NodeIds
          /\ links[q].target \in NodeIds
          /\ links[q].source # links[q].target
    /\ \A q1, q2 \in DOMAIN links :
          q1 # q2 => {links[q1].source, links[q1].target}
                        # {links[q2].source, links[q2].target}
    /\ \A i, j \in DOMAIN nodes : i # j => nodes[i].id # nodes[j].id

\* a graph of three nodes with two links or more
C5_Witness ==
    /\ GraphProduced
    /\ Len(nodes) = 3
    /\ Len(links) >= 2

\* C6: when every series with MIN_SAMPLES points or more is constant, every
\* off-diagonal correlation is undefined and there is no link, whatever the
\* threshold.
C6_AllConstantNoLinks ==
    (GraphProduced /\ \A id \in Stored : Enough(id) => ZeroVariance(id)) =>
        /\ links = <<>>
        /\ LET df == data_frame(data_dict(history.items))
           IN  \A i, j \in DOMAIN df : i # j => ~pearson(df[i].v, df[j].v).defined

\* two constant columns or more under the threshold 0
C6_Witness ==
    /\ GraphProduced
    /\ \A id \in Stored : Enough(id) => ZeroVariance(id)
    /\ Len(nodes) >= 2
    /\ MIN_CORRELATION = 0
    /\ links = <<>>

\* C10 as stated: a zero-variance instrument is not a node and not an
\* endpoint of a link.
C10_ZeroVarianceNotInGraph ==
    GraphProduced =>
        \A id \in Stored : ZeroVariance(id) => id \notin NodeIds \cup Endpoints

\* C10: a zero-variance instrument is never an endpoint of a link, it is a
\* node exactly when it has MIN_SAMPLES points or more, and zero variance
\* does not make calculate_correlation raise: when it raises, a record with
\* MIN_SAMPLES points or more has no title.
C10_ZeroVarianceNotLinked ==
    /\ GraphProduced =>
          \A id \in Stored :
              ZeroVariance(id) => /\ id \notin Endpoints
                                  /\ id \in NodeIds <=> Enough(id)
    /\ outcome = "calculate_correlation raised" =>
          \E id \in Stored : Enough(id) /\ "title" \notin DOMAIN Get(history.items, id)

\* a constant column is a node of a graph that has a link between two others
C10_Witness ==
    /\ GraphProduced
    /\ links # <<>>
    /\ \E id \in NodeIds : ZeroVariance(id)

----------------------------------------------------------------------------
(* Properties of main (Spec) *)

\* C7: with an empty snapshot the run stops before any write: main never
\* gets past the check, and both files are as they were when the run started.
C7_EmptySnapshotIsNoOp ==
    /\ pc \notin {"idle", "loaded", "fetched"} => snapshot # <<>>
    /\ (pc = "idle" /\ outcome # "none" /\ snapshot = <<>>) =>
          /\ file_history = at_start.history
          /\ file_graph = at_start.graph

\* a run that found no data, over a history file with records and a corrupt
\* graph file
C7_Witness ==
    /\ pc = "idle"
    /\ outcome = "no_data"
    /\ file_history.kind = "json"
    /\ file_graph = Unparseable

\* C8: no exception escapes main.
C8_NoExceptionEscapes ==
    outcome \notin {"update_history raised", "calculate_correlation raised"}

\* C9: after an interrupted run, the history the next run loads has every
\* instrument that was persisted before the run, with at least the series it
\* had then.
C9_InterruptKeepsSeries ==
    (pc = "idle" /\ outcome = "interrupted") =>
        LET before == load_history(at_start.history)
            after == load_history(file_history)
        IN  before.type = "dict" =>
                \A i \in DOMAIN before.items :
                    "prices" \in DOMAIN before.items[i].v =>
                        /\ after.type = "dict"
                        /\ Has(after.items, before.items[i].k)
                        /\ "prices" \in DOMAIN Get(after.items, before.items[i].k)
                        /\ LET old == before.items[i].v.prices
                               new == Get(after.items, before.items[i].k).prices
                           IN  \/ IsPrefix(old, new)
                               \/ new # <<>> /\ new = keep_last(Append(old, new[Len(new)]))

====
